---- MODULE Spec2Model ----
(***************************************************************************)
(* Verification model of the telepublisher backend's scheduler:            *)
(*   - SchedulerService.processScheduledPosts / processScheduledPolls      *)
(*     (the cron dispatcher) and the manual publishScheduledPost handler,  *)
(*     with their two module-level in-flight sets;                         *)
(*   - the autoposting executor on its cron path                           *)
(*     (AutoPostingService.processDueRules) and its manual path            *)
(*     (executeAutoPostingRule), with calculateNextScheduledDate.          *)
(*                                                                         *)
(* Time is counted in whole minutes since a Sunday 00:00 (host local time, *)
(* no DST).  The code between two awaits runs atomically, as on the        *)
(* Node.js event loop.  In the dispatchers every awaited call is a step    *)
(* boundary.  In the executor the steps are the reads and writes of the    *)
(* User collection (find, findById, save); the awaited calls in between    *)
(* (scraping, text and image generation, publication) touch only the       *)
(* execution's own in-memory document and are folded into the step that    *)
(* runs the rule, their results being chosen there.                        *)
(***************************************************************************)
EXTENDS Integers, Sequences, FiniteSets, TLC

(***************************************************************************)
(* Bounds of the model.                                                    *)
(***************************************************************************)
\* scheduled posts / polls that are ever created (ids 1..NumItems)
NumItems == 2
\* overlapping runs of the cron tick callback that are tracked
NumTicks == 2
\* manual publish requests that may be in progress at once
NumReqs == 2
\* last minute at which the cron timer fires
MaxMinute == 2

PostIds == 1..NumItems
Ticks == 1..NumTicks
Reqs == 1..NumReqs

VARIABLES
    now,              \* wall clock, in minutes
    \* ---- ScheduledPost collection and its dispatcher ----
    scheduledPosts,   \* ScheduledPost collection: id -> document
    nextPostId,       \* next fresh _id of the collection
    processingPosts,  \* scheduler.service: const processingPosts = new Set()
    publishingPosts,  \* scheduled-post.controller: const publishingPosts = new Set()
    tickPc,           \* position of each run of processScheduledPosts
    duePosts,         \* its duePosts still to be iterated (current one included)
    postStillExists,  \* its postStillExists (result of the re-fetch)
    tickResult,       \* its result.success: "none" | "ok" | "fail"
    reqPc,            \* position of each publishScheduledPost request
    reqId,            \* its req.params.id
    reqFound,         \* its scheduledPost (found or not)
    reqResult,        \* its result.success: "none" | "ok" | "fail"
    \* ---- ScheduledPoll collection and its dispatcher ----
    scheduledPolls,   \* ScheduledPoll collection: id -> document
    nextPollId,       \* next fresh _id of the collection
    pollPc,           \* position of each run of processScheduledPolls
    duePolls,         \* its duePolls still to be iterated (current one included)
    pollResult,       \* its result.success: "none" | "ok" | "fail"
    pollReqPc,        \* position of each publishScheduledPoll request
    pollReqId,        \* its req.params.id
    pollReqFound,     \* its scheduledPoll (found or not)
    pollAttempts,     \* observer: failed dispatcher attempts per poll id
    \* ---- User collection and the autoposting executor ----
    userStore,        \* User collection: user id -> stored document
    execKind,         \* each execution slot: "none" | "cron" | "manual"
    execPc,           \* its position: "idle" | "rule" | "generate" | "save"
    execFound,        \* cron: the documents User.find returned (as found)
    execUsers,        \* cron: users of the result still to be iterated
    execUser,         \* the user being processed
    execDoc,          \* its in-memory document `user`
    execDue,          \* cron: dueRules still to be iterated
    execRule,         \* manual: req.params.id
    execCount,        \* executions started so far
    lastExec,         \* observer: what the last execution step did
    \* ---- ContentDuplicationService, applied to sample texts ----
    dupContent,       \* newContent: the text under check
    dupHistory,       \* contentHistory: the stored summaries
    dupResult,        \* the ContentSimilarityResult of the last check
    \* ---- calculateNextScheduledDate, applied to sample rules ----
    calcParams,       \* params: the ScheduleParams of a rule
    calcNow,          \* new Date() at the time of the computation
    calcDate          \* the date returned

postVars == <<scheduledPosts, nextPostId, processingPosts, publishingPosts,
              tickPc, duePosts, postStillExists, tickResult,
              reqPc, reqId, reqFound, reqResult>>

pollVars == <<scheduledPolls, nextPollId, pollPc, duePolls, pollResult,
              pollReqPc, pollReqId, pollReqFound, pollAttempts>>

ruleVars == <<userStore, execKind, execPc, execFound, execUsers, execUser,
              execDoc, execDue, execRule, execCount, lastExec>>

dupVars == <<dupContent, dupHistory, dupResult>>

calcVars == <<calcParams, calcNow, calcDate>>

pureVars == <<dupVars, calcVars>>

vars == <<now, postVars, pollVars, ruleVars, pureVars>>

(***************************************************************************)
(* ScheduledPost documents.                                                *)
(***************************************************************************)
NoPost == [exists |-> FALSE, scheduledDate |-> 0, published |-> FALSE]

NewPost(date) == [exists |-> TRUE, scheduledDate |-> date, published |-> FALSE]

\* ScheduledPost.find({ published: false, scheduledDate: { $lte: now } })
FindDuePosts(t) ==
    {p \in PostIds : /\ scheduledPosts[p].exists
                     /\ ~scheduledPosts[p].published
                     /\ scheduledPosts[p].scheduledDate <= t}

\* the post the for-of loop is at: documents come back in _id order
CurPost(k) == CHOOSE p \in duePosts[k] : \A q \in duePosts[k] : p <= q

\* processingPosts.has(postId) misread as never set: the mutant of IsProcessing
IsProcessingNever(id) == FALSE

\* const isProcessing = processingPosts.has(postId)
IsProcessing(id) == id \in processingPosts

\* publishingPosts.has(id)
AlreadyProcessing(id) == id \in publishingPosts

\* a finally block that forgets the delete: the mutant of ReleaseProcessing
ReleaseProcessingLeak(id) == processingPosts

\* finally { processingPosts.delete(postId) }
ReleaseProcessing(id) == processingPosts \ {id}

\* finally { publishingPosts.delete(id) }
ReleasePublishing(id) == publishingPosts \ {id}

\* outcomes of resolving the owner and the channel inside the guarded section
LookupOutcomes == {"ok", "nouser", "nochannel", "throw"}

(***************************************************************************)
(* Tenant actions on the ScheduledPost collection.                         *)
(***************************************************************************)
\* createScheduledPost: the date must be in the future
CreateScheduledPost(date) ==
    /\ nextPostId \in PostIds
    /\ date > now
    /\ scheduledPosts' = [scheduledPosts EXCEPT ![nextPostId] = NewPost(date)]
    /\ nextPostId' = nextPostId + 1
    /\ UNCHANGED <<now, processingPosts, publishingPosts, tickPc, duePosts,
                   postStillExists, tickResult, reqPc, reqId, reqFound, reqResult>>
    /\ UNCHANGED <<pollVars, ruleVars, pureVars>>

\* deleteScheduledPost (cancellation): findOneAndDelete
DeleteScheduledPost(id) ==
    /\ scheduledPosts[id].exists
    /\ scheduledPosts' = [scheduledPosts EXCEPT ![id] = NoPost]
    /\ UNCHANGED <<now, nextPostId, processingPosts, publishingPosts, tickPc,
                   duePosts, postStillExists, tickResult, reqPc, reqId, reqFound,
                   reqResult>>
    /\ UNCHANGED <<pollVars, ruleVars, pureVars>>

(***************************************************************************)
(* SchedulerService.processScheduledPosts, one run k of the tick callback. *)
(***************************************************************************)
\* `continue` / end of the loop body: move to the next due post or return
TickNext(k) ==
    LET rest == duePosts[k] \ {CurPost(k)} IN
    /\ duePosts' = [duePosts EXCEPT ![k] = rest]
    /\ tickPc' = [tickPc EXCEPT ![k] = IF rest = {} THEN "idle" ELSE "refetch"]
    /\ postStillExists' = [postStillExists EXCEPT ![k] = FALSE]
    /\ tickResult' = [tickResult EXCEPT ![k] = "none"]

\* the cron timer fires at the next minute; the run queries the due posts
\* (runs are interchangeable: a new run takes the lowest free slot)
CronFire(k) ==
    /\ tickPc[k] = "idle"
    /\ \A j \in Ticks : j < k => tickPc[j] # "idle"
    /\ now < MaxMinute
    /\ now' = now + 1
    /\ duePosts' = [duePosts EXCEPT ![k] = FindDuePosts(now')]
    /\ tickPc' = [tickPc EXCEPT ![k] =
                    IF FindDuePosts(now') = {} THEN "idle" ELSE "refetch"]
    /\ tickResult' = [tickResult EXCEPT ![k] = "none"]
    /\ postStillExists' = [postStillExists EXCEPT ![k] = FALSE]
    /\ UNCHANGED <<scheduledPosts, nextPostId, processingPosts, publishingPosts,
                   reqPc, reqId, reqFound, reqResult>>
    /\ UNCHANGED <<pollVars, ruleVars, pureVars>>

\* const postStillExists = await ScheduledPost.findById(postId)
PostRefetch(k) ==
    /\ tickPc[k] = "refetch"
    /\ postStillExists' = [postStillExists EXCEPT ![k] =
                             scheduledPosts[CurPost(k)].exists]
    /\ tickResult' = [tickResult EXCEPT ![k] = "none"]
    /\ tickPc' = [tickPc EXCEPT ![k] = "check"]
    /\ UNCHANGED <<now, scheduledPosts, nextPostId, processingPosts,
                   publishingPosts, duePosts, reqPc, reqId, reqFound, reqResult>>
    /\ UNCHANGED <<pollVars, ruleVars, pureVars>>

\* the existence check, processingPosts.has and processingPosts.add
PostAcquire(k) ==
    /\ tickPc[k] = "check"
    /\ IF ~postStillExists[k] \/ IsProcessing(CurPost(k))
         THEN /\ TickNext(k)
              /\ UNCHANGED processingPosts
         ELSE /\ processingPosts' = processingPosts \cup {CurPost(k)}
              /\ tickPc' = [tickPc EXCEPT ![k] = "finduser"]
              /\ UNCHANGED <<duePosts, postStillExists, tickResult>>
    /\ UNCHANGED <<now, scheduledPosts, nextPostId, publishingPosts,
                   reqPc, reqId, reqFound, reqResult>>
    /\ UNCHANGED <<pollVars, ruleVars, pureVars>>

\* await User.findOne, the channel lookup, and the call of publishToTelegram
PostFindUser(k) ==
    /\ tickPc[k] = "finduser"
    /\ \E o \in LookupOutcomes :
          tickPc' = [tickPc EXCEPT ![k] = IF o = "ok" THEN "publish" ELSE "finally"]
    /\ UNCHANGED <<now, scheduledPosts, nextPostId, processingPosts,
                   publishingPosts, duePosts, postStillExists, tickResult,
                   reqPc, reqId, reqFound, reqResult>>
    /\ UNCHANGED <<pollVars, ruleVars, pureVars>>

\* publishToTelegram resolves: it never throws, it returns success or failure
PostPublishReturn(k) ==
    /\ tickPc[k] = "publish"
    /\ \E r \in {"ok", "fail"} : tickResult' = [tickResult EXCEPT ![k] = r]
    /\ tickPc' = [tickPc EXCEPT ![k] = "delete"]
    /\ UNCHANGED <<now, scheduledPosts, nextPostId, processingPosts,
                   publishingPosts, duePosts, postStillExists,
                   reqPc, reqId, reqFound, reqResult>>
    /\ UNCHANGED <<pollVars, ruleVars, pureVars>>

\* await ScheduledPost.findByIdAndDelete(post._id): whatever result.success is
PostDelete(k) ==
    /\ tickPc[k] = "delete"
    /\ \E stored \in BOOLEAN :
          scheduledPosts' = IF stored
                              THEN [scheduledPosts EXCEPT ![CurPost(k)] = NoPost]
                              ELSE scheduledPosts
    /\ tickPc' = [tickPc EXCEPT ![k] = "finally"]
    /\ UNCHANGED <<now, nextPostId, processingPosts, publishingPosts, duePosts,
                   postStillExists, tickResult, reqPc, reqId, reqFound, reqResult>>
    /\ UNCHANGED <<pollVars, ruleVars, pureVars>>

\* finally { processingPosts.delete(postId) }, then the next post
PostFinally(k) ==
    /\ tickPc[k] = "finally"
    /\ processingPosts' = ReleaseProcessing(CurPost(k))
    /\ TickNext(k)
    /\ UNCHANGED <<now, scheduledPosts, nextPostId, publishingPosts,
                   reqPc, reqId, reqFound, reqResult>>
    /\ UNCHANGED <<pollVars, ruleVars, pureVars>>

(***************************************************************************)
(* publishScheduledPost, one request r.                                    *)
(***************************************************************************)
\* await ScheduledPost.findOne({ _id: id, user: userId, published: false })
\* (requests are interchangeable: a new request takes the lowest free slot)
ReqFind(r, id) ==
    /\ reqPc[r] = "idle"
    /\ \A j \in Reqs : j < r => reqPc[j] # "idle"
    /\ reqId' = [reqId EXCEPT ![r] = id]
    /\ reqFound' = [reqFound EXCEPT ![r] =
                      scheduledPosts[id].exists /\ ~scheduledPosts[id].published]
    /\ reqResult' = [reqResult EXCEPT ![r] = "none"]
    /\ reqPc' = [reqPc EXCEPT ![r] = "check"]
    /\ UNCHANGED <<now, scheduledPosts, nextPostId, processingPosts,
                   publishingPosts, tickPc, duePosts, postStillExists, tickResult>>
    /\ UNCHANGED <<pollVars, ruleVars, pureVars>>

\* the request has answered: its locals are gone
ReqDone(r) ==
    /\ reqPc' = [reqPc EXCEPT ![r] = "idle"]
    /\ reqId' = [reqId EXCEPT ![r] = 1]
    /\ reqFound' = [reqFound EXCEPT ![r] = FALSE]
    /\ reqResult' = [reqResult EXCEPT ![r] = "none"]

\* the 404, publishingPosts.has and publishingPosts.add
ReqAcquire(r) ==
    /\ reqPc[r] = "check"
    /\ IF ~reqFound[r] \/ AlreadyProcessing(reqId[r])
         THEN /\ ReqDone(r)
              /\ UNCHANGED publishingPosts
         ELSE /\ publishingPosts' = publishingPosts \cup {reqId[r]}
              /\ reqPc' = [reqPc EXCEPT ![r] = "finduser"]
              /\ UNCHANGED <<reqId, reqFound, reqResult>>
    /\ UNCHANGED <<now, scheduledPosts, nextPostId, processingPosts, tickPc,
                   duePosts, postStillExists, tickResult>>
    /\ UNCHANGED <<pollVars, ruleVars, pureVars>>

\* await User.findById, the channel lookup, and the call of publishToTelegram
ReqFindUser(r) ==
    /\ reqPc[r] = "finduser"
    /\ \E o \in LookupOutcomes :
          reqPc' = [reqPc EXCEPT ![r] = IF o = "ok" THEN "publish" ELSE "finally"]
    /\ UNCHANGED <<now, scheduledPosts, nextPostId, processingPosts,
                   publishingPosts, tickPc, duePosts, postStillExists, tickResult,
                   reqId, reqFound, reqResult>>
    /\ UNCHANGED <<pollVars, ruleVars, pureVars>>

\* publishToTelegram resolves; a failure answers 500 and keeps the post
ReqPublishReturn(r) ==
    /\ reqPc[r] = "publish"
    /\ \E res \in {"ok", "fail"} :
          /\ reqResult' = [reqResult EXCEPT ![r] = res]
          /\ reqPc' = [reqPc EXCEPT ![r] = IF res = "ok" THEN "delete" ELSE "finally"]
    /\ UNCHANGED <<now, scheduledPosts, nextPostId, processingPosts,
                   publishingPosts, tickPc, duePosts, postStillExists, tickResult,
                   reqId, reqFound>>
    /\ UNCHANGED <<pollVars, ruleVars, pureVars>>

\* await ScheduledPost.findByIdAndDelete(scheduledPost._id)
ReqDelete(r) ==
    /\ reqPc[r] = "delete"
    /\ \E stored \in BOOLEAN :
          scheduledPosts' = IF stored
                              THEN [scheduledPosts EXCEPT ![reqId[r]] = NoPost]
                              ELSE scheduledPosts
    /\ reqPc' = [reqPc EXCEPT ![r] = "finally"]
    /\ UNCHANGED <<now, nextPostId, processingPosts, publishingPosts, tickPc,
                   duePosts, postStillExists, tickResult, reqId, reqFound, reqResult>>
    /\ UNCHANGED <<pollVars, ruleVars, pureVars>>

\* finally { publishingPosts.delete(id) }, and the response
ReqFinally(r) ==
    /\ reqPc[r] = "finally"
    /\ publishingPosts' = ReleasePublishing(reqId[r])
    /\ ReqDone(r)
    /\ UNCHANGED <<now, scheduledPosts, nextPostId, processingPosts, tickPc,
                   duePosts, postStillExists, tickResult>>
    /\ UNCHANGED <<pollVars, ruleVars, pureVars>>

\* the state after the module is loaded and the collection is empty
InitPostVars ==
    /\ scheduledPosts = [p \in PostIds |-> NoPost]
    /\ nextPostId = 1
    /\ processingPosts = {}
    /\ publishingPosts = {}
    /\ tickPc = [k \in Ticks |-> "idle"]
    /\ duePosts = [k \in Ticks |-> {}]
    /\ postStillExists = [k \in Ticks |-> FALSE]
    /\ tickResult = [k \in Ticks |-> "none"]
    /\ reqPc = [r \in Reqs |-> "idle"]
    /\ reqId = [r \in Reqs |-> 1]
    /\ reqFound = [r \in Reqs |-> FALSE]
    /\ reqResult = [r \in Reqs |-> "none"]

NextPosts ==
    \/ \E d \in 1..MaxMinute : CreateScheduledPost(d)
    \/ \E p \in PostIds : DeleteScheduledPost(p)
    \/ \E k \in Ticks : CronFire(k)
    \/ \E k \in Ticks : PostRefetch(k)
    \/ \E k \in Ticks : PostAcquire(k)
    \/ \E k \in Ticks : PostFindUser(k)
    \/ \E k \in Ticks : PostPublishReturn(k)
    \/ \E k \in Ticks : PostDelete(k)
    \/ \E k \in Ticks : PostFinally(k)
    \/ \E r \in Reqs, p \in PostIds : ReqFind(r, p)
    \/ \E r \in Reqs : ReqAcquire(r)
    \/ \E r \in Reqs : ReqFindUser(r)
    \/ \E r \in Reqs : ReqPublishReturn(r)
    \/ \E r \in Reqs : ReqDelete(r)
    \/ \E r \in Reqs : ReqFinally(r)


(***************************************************************************)
(* ScheduledPoll collection: tenant actions.                               *)
(***************************************************************************)
\* ScheduledPoll.find({ published: false, scheduledDate: { $lte: now } })
FindDuePolls(t) ==
    {p \in PostIds : /\ scheduledPolls[p].exists
                     /\ ~scheduledPolls[p].published
                     /\ scheduledPolls[p].scheduledDate <= t}

\* the poll the for-of loop is at
CurPoll(k) == CHOOSE p \in duePolls[k] : \A q \in duePolls[k] : p <= q

\* createScheduledPoll: the date must be in the future
CreateScheduledPoll(date) ==
    /\ nextPollId \in PostIds
    /\ date > now
    /\ scheduledPolls' = [scheduledPolls EXCEPT ![nextPollId] = NewPost(date)]
    /\ nextPollId' = nextPollId + 1
    /\ UNCHANGED <<now, pollPc, duePolls, pollResult, pollReqPc, pollReqId,
                   pollReqFound, pollAttempts>>
    /\ UNCHANGED <<postVars, ruleVars, pureVars>>

\* deleteScheduledPoll (cancellation): findOneAndDelete
DeleteScheduledPoll(id) ==
    /\ scheduledPolls[id].exists
    /\ scheduledPolls' = [scheduledPolls EXCEPT ![id] = NoPost]
    /\ UNCHANGED <<now, nextPollId, pollPc, duePolls, pollResult, pollReqPc,
                   pollReqId, pollReqFound, pollAttempts>>
    /\ UNCHANGED <<postVars, ruleVars, pureVars>>

(***************************************************************************)
(* SchedulerService.processScheduledPolls, one run k.                      *)
(***************************************************************************)
\* if (result.success), as a mutation would have it: always true
ResultSuccessAlways(res) == TRUE

\* if (result.success)
ResultSuccess(res) == res = "ok"

\* observer: the attempts of the dispatcher on a poll that ended without a
\* successful send (the two console.error branches and the catch)
PollFailed(k) ==
    pollAttempts' = [pollAttempts EXCEPT ![CurPoll(k)] = @ + 1]

\* `continue` / end of the loop body
PollNext(k) ==
    LET rest == duePolls[k] \ {CurPoll(k)} IN
    /\ duePolls' = [duePolls EXCEPT ![k] = rest]
    /\ pollPc' = [pollPc EXCEPT ![k] = IF rest = {} THEN "idle" ELSE "finduser"]
    /\ pollResult' = [pollResult EXCEPT ![k] = "none"]

\* the cron timer fires at the next minute; the run queries the due polls
\* (runs are interchangeable: a new run takes the lowest free slot)
PollFire(k) ==
    /\ pollPc[k] = "idle"
    /\ \A j \in Ticks : j < k => pollPc[j] # "idle"
    /\ now < MaxMinute
    /\ now' = now + 1
    /\ duePolls' = [duePolls EXCEPT ![k] = FindDuePolls(now')]
    /\ pollPc' = [pollPc EXCEPT ![k] =
                    IF FindDuePolls(now') = {} THEN "idle" ELSE "finduser"]
    /\ pollResult' = [pollResult EXCEPT ![k] = "none"]
    /\ UNCHANGED <<scheduledPolls, nextPollId, pollReqPc, pollReqId, pollReqFound,
                   pollAttempts>>
    /\ UNCHANGED <<postVars, ruleVars, pureVars>>

\* await User.findOne, the channel lookup, and the call of sendPoll
PollFindUser(k) ==
    /\ pollPc[k] = "finduser"
    /\ \E o \in LookupOutcomes :
          IF o = "ok"
            THEN /\ pollPc' = [pollPc EXCEPT ![k] = "send"]
                 /\ UNCHANGED <<duePolls, pollResult, pollAttempts>>
            ELSE /\ PollNext(k)
                 /\ PollFailed(k)
    /\ UNCHANGED <<now, scheduledPolls, nextPollId, pollReqPc, pollReqId,
                   pollReqFound>>
    /\ UNCHANGED <<postVars, ruleVars, pureVars>>

\* telegramService.sendPoll resolves: it never throws; on failure the poll
\* is logged and left in place
PollSendReturn(k) ==
    /\ pollPc[k] = "send"
    /\ \E res \in {"ok", "fail"} :
          IF ResultSuccess(res)
            THEN /\ pollResult' = [pollResult EXCEPT ![k] = res]
                 /\ pollPc' = [pollPc EXCEPT ![k] = "delete"]
                 /\ UNCHANGED <<duePolls, pollAttempts>>
            ELSE /\ PollNext(k)
                 /\ PollFailed(k)
    /\ UNCHANGED <<now, scheduledPolls, nextPollId, pollReqPc, pollReqId,
                   pollReqFound>>
    /\ UNCHANGED <<postVars, ruleVars, pureVars>>

\* if (result.success) await ScheduledPoll.findByIdAndDelete(poll._id)
PollDelete(k) ==
    /\ pollPc[k] = "delete"
    /\ \E stored \in BOOLEAN :
          scheduledPolls' = IF stored
                              THEN [scheduledPolls EXCEPT ![CurPoll(k)] = NoPost]
                              ELSE scheduledPolls
    /\ PollNext(k)
    /\ UNCHANGED <<now, nextPollId, pollReqPc, pollReqId, pollReqFound, pollAttempts>>
    /\ UNCHANGED <<postVars, ruleVars, pureVars>>

(***************************************************************************)
(* publishScheduledPoll, one request r (it takes no in-flight guard).      *)
(***************************************************************************)
PollReqDone(r) ==
    /\ pollReqPc' = [pollReqPc EXCEPT ![r] = "idle"]
    /\ pollReqId' = [pollReqId EXCEPT ![r] = 1]
    /\ pollReqFound' = [pollReqFound EXCEPT ![r] = FALSE]

\* await ScheduledPoll.findOne({ _id: id, user: userId, published: false })
PollReqFind(r, id) ==
    /\ pollReqPc[r] = "idle"
    /\ \A j \in Reqs : j < r => pollReqPc[j] # "idle"
    /\ pollReqId' = [pollReqId EXCEPT ![r] = id]
    /\ pollReqFound' = [pollReqFound EXCEPT ![r] =
                          scheduledPolls[id].exists /\ ~scheduledPolls[id].published]
    /\ pollReqPc' = [pollReqPc EXCEPT ![r] = "lookup"]
    /\ UNCHANGED <<now, scheduledPolls, nextPollId, pollPc, duePolls, pollResult,
                   pollAttempts>>
    /\ UNCHANGED <<postVars, ruleVars, pureVars>>

\* the 404, await User.findById, await Channel.findOne, the call of sendPoll
PollReqLookup(r) ==
    /\ pollReqPc[r] = "lookup"
    /\ \E o \in LookupOutcomes :
          IF pollReqFound[r] /\ o = "ok"
            THEN /\ pollReqPc' = [pollReqPc EXCEPT ![r] = "send"]
                 /\ UNCHANGED <<pollReqId, pollReqFound>>
            ELSE PollReqDone(r)
    /\ UNCHANGED <<now, scheduledPolls, nextPollId, pollPc, duePolls, pollResult,
                   pollAttempts>>
    /\ UNCHANGED <<postVars, ruleVars, pureVars>>

\* sendPoll resolves; a failure answers 400 and keeps the poll
PollReqSendReturn(r) ==
    /\ pollReqPc[r] = "send"
    /\ \E res \in {"ok", "fail"} :
          IF res = "ok"
            THEN /\ pollReqPc' = [pollReqPc EXCEPT ![r] = "delete"]
                 /\ UNCHANGED <<pollReqId, pollReqFound>>
            ELSE PollReqDone(r)
    /\ UNCHANGED <<now, scheduledPolls, nextPollId, pollPc, duePolls, pollResult,
                   pollAttempts>>
    /\ UNCHANGED <<postVars, ruleVars, pureVars>>

\* await ScheduledPoll.findByIdAndDelete(scheduledPoll._id), and the response
PollReqDelete(r) ==
    /\ pollReqPc[r] = "delete"
    /\ \E stored \in BOOLEAN :
          scheduledPolls' = IF stored
                              THEN [scheduledPolls EXCEPT ![pollReqId[r]] = NoPost]
                              ELSE scheduledPolls
    /\ PollReqDone(r)
    /\ UNCHANGED <<now, nextPollId, pollPc, duePolls, pollResult, pollAttempts>>
    /\ UNCHANGED <<postVars, ruleVars, pureVars>>

InitPollVars ==
    /\ scheduledPolls = [p \in PostIds |-> NoPost]
    /\ nextPollId = 1
    /\ pollPc = [k \in Ticks |-> "idle"]
    /\ duePolls = [k \in Ticks |-> {}]
    /\ pollResult = [k \in Ticks |-> "none"]
    /\ pollReqPc = [r \in Reqs |-> "idle"]
    /\ pollReqId = [r \in Reqs |-> 1]
    /\ pollReqFound = [r \in Reqs |-> FALSE]
    /\ pollAttempts = [p \in PostIds |-> 0]

NextPolls ==
    \/ \E d \in 1..MaxMinute : CreateScheduledPoll(d)
    \/ \E p \in PostIds : DeleteScheduledPoll(p)
    \/ \E k \in Ticks : PollFire(k)
    \/ \E k \in Ticks : PollFindUser(k)
    \/ \E k \in Ticks : PollSendReturn(k)
    \/ \E k \in Ticks : PollDelete(k)
    \/ \E r \in Reqs, p \in PostIds : PollReqFind(r, p)
    \/ \E r \in Reqs : PollReqLookup(r)
    \/ \E r \in Reqs : PollReqSendReturn(r)
    \/ \E r \in Reqs : PollReqDelete(r)


(***************************************************************************)
(* Autoposting: bounds of the executor model.                              *)
(***************************************************************************)
\* tenants (User documents)
NumUsers == 1
\* autoposting rules of each tenant
NumRules == 2
\* executions (cron batches, manual requests) that may be in progress at once
NumExecs == 2
\* executions that are ever started
MaxExecs == 2
\* largest initial aiCredits balance
MaxCredits == 5
\* minutes the wall clock advances by in one step of the executor model
ClockStep == 360
\* number of such steps
MaxClockSteps == 2
\* distinct texts the text generator may return
NumTexts == 2
\* tenants in the User collection of the batch specification
NumBatchUsers == 2

Users == 1..NumUsers
RuleIds == 1..NumRules
Execs == 1..NumExecs
Texts == 1..NumTexts
BatchUsers == 1..NumBatchUsers

(***************************************************************************)
(* dateUtils: calculateNextScheduledDate.  A Date is a number of minutes.  *)
(***************************************************************************)
MinutesPerHour == 60
MinutesPerDay == 1440
DaysPerWeek == 7
\* a Date field that is null
NoDate == -1

Min(S) == CHOOSE x \in S : \A y \in S : x <= y
Max(S) == CHOOSE x \in S : \A y \in S : x >= y

weekdayMap ==
    [sunday |-> 0, monday |-> 1, tuesday |-> 2, wednesday |-> 3,
     thursday |-> 4, friday |-> 5, saturday |-> 6]

\* day.toLowerCase(), on the spellings of a day name that tenants send
toLowerCase(day) ==
    CASE day = "Sunday"    -> "sunday"
      [] day = "Monday"    -> "monday"
      [] day = "Tuesday"   -> "tuesday"
      [] day = "Wednesday" -> "wednesday"
      [] day = "Thursday"  -> "thursday"
      [] day = "Friday"    -> "friday"
      [] day = "Saturday"  -> "saturday"
      [] OTHER             -> day

\* Date.getDay(): minute 0 is a Sunday 00:00
GetDay(date) == (date \div MinutesPerDay) % DaysPerWeek

findNextWeekdayDate(baseDate, preferredDays) ==
    LET preferredDayNumbers ==
            {weekdayMap[toLowerCase(preferredDays[i])] :
                i \in {j \in DOMAIN preferredDays :
                          toLowerCase(preferredDays[j]) \in DOMAIN weekdayMap}}
        currentDayOfWeek == GetDay(baseDate)
        laterThisWeek == {d \in preferredDayNumbers : d > currentDayOfWeek}
        daysToAdd == IF laterThisWeek # {}
                       THEN Min(laterThisWeek) - currentDayOfWeek
                       ELSE DaysPerWeek - currentDayOfWeek + Min(preferredDayNumbers)
    IN  IF Len(preferredDays) = 0 \/ preferredDayNumbers = {}
          THEN baseDate
          ELSE baseDate + daysToAdd * MinutesPerDay

\* every unit taken for days
addTimeToDateInDays(date, interval, unit) == date + interval * MinutesPerDay

addTimeToDate(date, interval, unit) ==
    CASE unit = "minutes" -> date + interval
      [] unit = "hours"   -> date + interval * MinutesPerHour
      [] unit = "days"    -> date + interval * MinutesPerDay
      [] OTHER            -> date + interval * MinutesPerDay

\* params.customInterval = 0 and params.customTimeUnit = "" stand for
\* undefined; preferredTime is the pair <<hours, minutes>> that
\* preferredTime.split(':').map(Number) yields.  t is `new Date()`.
calculateNextScheduledDate(params, t) ==
    LET customInterval == IF params.customInterval = 0 THEN 1
                          ELSE params.customInterval
        customTimeUnit == IF params.customTimeUnit = "" THEN "days"
                          ELSE params.customTimeUnit
        hours == params.preferredTime[1]
        minutes == params.preferredTime[2]
        \* baseDate.setHours(hours || 12, minutes || 0, 0, 0): a part that is
        \* 0 takes the default (as does one that is not a number), a negative
        \* part reaches back into the day before
        atPreferred == (t \div MinutesPerDay) * MinutesPerDay
                         + (IF hours = 0 THEN 12 ELSE hours) * MinutesPerHour
                         + (IF minutes = 0 THEN 0 ELSE minutes)
        baseDate == IF atPreferred <= t THEN atPreferred + MinutesPerDay
                    ELSE atPreferred
    IN  CASE params.frequency = "daily"  -> baseDate
          [] params.frequency = "weekly" ->
                 findNextWeekdayDate(baseDate, params.preferredDays)
          [] params.frequency = "custom" ->
                 addTimeToDate(t, customInterval, customTimeUnit)
          [] OTHER -> baseDate

(***************************************************************************)
(* ContentDuplicationService.  A text is the sequence of its words, after  *)
(* lower-casing and the removal of punctuation; a word is a number, and    *)
(* word 0 stands for the words the keyword filter drops (three letters or  *)
(* fewer, or a stop word).                                                 *)
(***************************************************************************)
MIN_WORDS_TO_CHECK == 10

Range(seq) == {seq[i] : i \in DOMAIN seq}

\* [...new Set(words)]: first occurrences, in order
RECURSIVE Unique(_)
Unique(words) ==
    IF words = <<>> THEN <<>>
    ELSE LET front == Unique(SubSeq(words, 1, Len(words) - 1))
             last == words[Len(words)]
         IN  IF last \in Range(front) THEN front ELSE Append(front, last)

\* a word of a text: which word it is and how many characters it has; the
\* words with id 0 stand for the stop words
Word(id, len) == [id |-> id, len |-> len]

isStopWord(word) == word.id = 0

\* word.length > 3 && !this.isStopWord(word)
KeptWord(word) == word.len > 3 /\ ~isStopWord(word)

extractKeywords(text) == Unique(SelectSeq(text, KeptWord))

\* the overlap coefficient: the common words over the words of the smaller
\* set
calculateOverlap(words1, words2) ==
    LET set1 == Range(words1)
        set2 == Range(words2)
    IN  IF Len(words1) = 0 \/ Len(words2) = 0
          THEN <<0, 1>>
          ELSE <<Cardinality(set1 \cap set2),
                 Min({Cardinality(set1), Cardinality(set2)})>>

\* intersection.size / union.size (Jaccard coefficient), as the fraction
\* <<numerator, denominator>>
calculateSimilarity(words1, words2) ==
    LET set1 == Range(words1)
        set2 == Range(words2)
    IN  IF Len(words1) = 0 \/ Len(words2) = 0
          THEN <<0, 1>>
          ELSE <<Cardinality(set1 \cap set2), Cardinality(set1 \cup set2)>>

\* similarity > maxSimilarity, on fractions
Greater(f, g) == f[1] * g[2] > g[1] * f[2]

\* the loop over contentHistory: the first greatest similarity
RECURSIVE MaxSimilarity(_, _)
MaxSimilarity(words, contentHistory) ==
    IF contentHistory = <<>> THEN <<0, 1>>
    ELSE LET before == MaxSimilarity(words, SubSeq(contentHistory, 1,
                                                   Len(contentHistory) - 1))
             similarity == calculateSimilarity(words,
                              extractKeywords(contentHistory[Len(contentHistory)]))
         IN  IF Greater(similarity, before) THEN similarity ELSE before

NotSimilar == [isSimilar |-> FALSE, similarity |-> <<0, 1>>]

\* checkContentDuplication(newContent, contentHistory) with the default
\* threshold 0.7: isSimilar = maxSimilarity >= threshold
checkContentDuplication(newContent, contentHistory) ==
    IF Len(newContent) = 0 THEN NotSimilar
    ELSE IF Len(contentHistory) = 0 THEN NotSimilar
    ELSE IF Len(extractKeywords(newContent)) < MIN_WORDS_TO_CHECK THEN NotSimilar
    ELSE LET maxSimilarity == MaxSimilarity(extractKeywords(newContent),
                                            contentHistory)
         IN  [isSimilar |-> 10 * maxSimilarity[1] >= 7 * maxSimilarity[2],
              similarity |-> maxSimilarity]

\* keywords.join(' ') cut by substring(0, limit): the words that fit, then
\* what is left of the word the cut falls in
RECURSIVE Substring(_, _)
Substring(words, limit) ==
    IF words = <<>> \/ limit = 0 THEN <<>>
    ELSE LET word == Head(words)
         IN  IF word.len > limit THEN <<Word(word.id, limit)>>
             ELSE IF word.len = limit THEN <<word>>
             ELSE <<word>> \o Substring(Tail(words), limit - word.len - 1)

\* the first 20 keywords joined by blanks, cut at 200 characters
createContentSummary(content) ==
    LET keywords == extractKeywords(content)
    IN  Substring(SubSeq(keywords, 1, Min({20, Len(keywords)})), 200)

cleanContentHistory(contentHistory, daysToKeep) ==
    LET maxEntries == Max({daysToKeep * 2, 10})
    IN  IF Len(contentHistory) <= maxEntries
          THEN contentHistory
          ELSE SubSeq(contentHistory, Len(contentHistory) - maxEntries + 1,
                      Len(contentHistory))

\* the texts generateText may resolve to: text i is a stop word followed by
\* the twelve keywords 2i-1 .. 2i+10, so neighbouring texts share ten of
\* their fourteen keywords
GeneratedText(i) == <<Word(0, 4)>> \o [k \in 1..12 |-> Word(2 * i - 2 + k, 6)]

(***************************************************************************)
(* User documents with their autoposting rules.                            *)
(***************************************************************************)
\* the recurrence and content parameters a tenant may create a rule with;
\* channelExists tells whether rule.channelId names one of user.channels
DailyNoon ==
    [frequency |-> "daily", customInterval |-> 0, customTimeUnit |-> "",
     preferredTime |-> <<12, 0>>,
     preferredDays |-> <<"monday", "wednesday", "friday">>,
     imageGeneration |-> FALSE, avoidDuplication |-> FALSE,
     duplicateCheckDays |-> 7, channelExists |-> TRUE]

EveryHalfHour ==
    [frequency |-> "custom", customInterval |-> 30, customTimeUnit |-> "minutes",
     preferredTime |-> <<12, 0>>,
     preferredDays |-> <<"monday", "wednesday", "friday">>,
     imageGeneration |-> TRUE, avoidDuplication |-> TRUE,
     duplicateCheckDays |-> 7, channelExists |-> TRUE]

HourlyNoChannel ==
    [frequency |-> "custom", customInterval |-> 1, customTimeUnit |-> "hours",
     preferredTime |-> <<12, 0>>,
     preferredDays |-> <<"monday", "wednesday", "friday">>,
     imageGeneration |-> TRUE, avoidDuplication |-> FALSE,
     duplicateCheckDays |-> 7, channelExists |-> FALSE]

WeeklyMorning ==
    [frequency |-> "weekly", customInterval |-> 0, customTimeUnit |-> "",
     preferredTime |-> <<9, 30>>,
     preferredDays |-> <<"Sunday", "monday", "friday">>,
     imageGeneration |-> FALSE, avoidDuplication |-> TRUE,
     duplicateCheckDays |-> 7, channelExists |-> TRUE]

EveryMinute ==
    [frequency |-> "custom", customInterval |-> 1, customTimeUnit |-> "minutes",
     preferredTime |-> <<12, 0>>,
     preferredDays |-> <<"monday", "wednesday", "friday">>,
     imageGeneration |-> FALSE, avoidDuplication |-> FALSE,
     duplicateCheckDays |-> 7, channelExists |-> TRUE]

\* the rule lists the modelled tenants start with
TextAndImageRules == [r \in RuleIds |-> IF r % 2 = 1 THEN DailyNoon
                                        ELSE EveryHalfHour]
BrokenAndWeeklyRules == [r \in RuleIds |-> IF r % 2 = 1 THEN HourlyNoChannel
                                           ELSE WeeklyMorning]
RuleLists == {TextAndImageRules, BrokenAndWeeklyRules}
MinuteAndDailyRules == [r \in RuleIds |-> IF r % 2 = 1 THEN EveryMinute
                                          ELSE DailyNoon]

\* createAutoPostingRule at time t: status defaults to 'active'
NewRule(cfg, t) ==
    [status |-> "active",
     frequency |-> cfg.frequency,
     customInterval |-> cfg.customInterval,
     customTimeUnit |-> cfg.customTimeUnit,
     preferredTime |-> cfg.preferredTime,
     preferredDays |-> cfg.preferredDays,
     imageGeneration |-> cfg.imageGeneration,
     avoidDuplication |-> cfg.avoidDuplication,
     duplicateCheckDays |-> cfg.duplicateCheckDays,
     channelExists |-> cfg.channelExists,
     contentHistory |-> <<>>,
     nextScheduled |-> calculateNextScheduledDate(cfg, t),
     lastPublished |-> NoDate]

\* a tenant with the given balance and rules, all created at time t
NewUser(credits, cfgs, t) ==
    [aiCredits |-> credits,
     totalCreditsUsed |-> 0,
     autoPostingRules |-> [r \in RuleIds |-> NewRule(cfgs[r], t)],
     autoPostingHistory |-> <<>>]

\* placeholders of an idle execution slot
NoUser == NewUser(0, [r \in RuleIds |-> DailyNoon], 0)
NoUsers == [u \in Users |-> NoUser]

\* an AutopostingHistoryEntry, as far as the claims look at it
HistoryEntry(ruleId, status, error) ==
    [ruleId |-> ruleId, status |-> status, error |-> error]

NoEntry == HistoryEntry(0, "none", "")

\* rule.status === 'active', as a mutation would have it: always true
RuleIsActiveAlways(rule) == TRUE

\* rule.status === 'active'
RuleIsActive(rule) == rule.status = "active"

\* let requiredCredits = rule.imageGeneration ? 3 : 1
RequiredCredits(rule) == IF rule.imageGeneration THEN 3 ELSE 1

\* the balance is never found too low
NotEnoughCreditsNever(user, requiredCredits) == FALSE

\* if (user.aiCredits < requiredCredits)
NotEnoughCredits(user, requiredCredits) == user.aiCredits < requiredCredits

\* rule.nextScheduled = calculateNextScheduledDate({...}), as a mutation
\* would have it: the assignment is missing
RescheduleNever(user, r, t) == user

\* rule.nextScheduled = calculateNextScheduledDate({ frequency: rule.frequency, ... })
Reschedule(user, r, t) ==
    [user EXCEPT !.autoPostingRules[r].nextScheduled =
                    calculateNextScheduledDate(user.autoPostingRules[r], t)]

\* the refund is forgotten
RefundImageNone(user) == user

\* catch of generateImage on the cron path: user.aiCredits += 2, the image
\* part of the 3 credits that are debited after the publish
RefundImage(user) == [user EXCEPT !.aiCredits = @ + 2]

\* user.autoPostingHistory.push({...})
PushHistory(user, entry) ==
    [user EXCEPT !.autoPostingHistory = Append(@, entry)]

\* publishResult.error: the message of a gateway that reports a failure
PublishError(outcome) == IF outcome = "pubfail" THEN "publish failed" ELSE ""

\* the debit is forgotten
DebitNothing(user, requiredCredits) == user

\* user.aiCredits -= requiredCredits; user.totalCreditsUsed += requiredCredits
Debit(user, requiredCredits) ==
    [user EXCEPT !.aiCredits = @ - requiredCredits,
                 !.totalCreditsUsed = @ + requiredCredits]

\* the whole in-memory document replaces the stored one
saveWholeDocument(stored, found, user) == user

\* await user.save(): the paths modified since the document was found are
\* written ($set), the pushed history entries are appended ($push)
save(stored, found, user) ==
    [aiCredits |-> IF user.aiCredits # found.aiCredits
                     THEN user.aiCredits ELSE stored.aiCredits,
     totalCreditsUsed |-> IF user.totalCreditsUsed # found.totalCreditsUsed
                            THEN user.totalCreditsUsed ELSE stored.totalCreditsUsed,
     autoPostingRules |->
        [r \in RuleIds |->
            LET old == found.autoPostingRules[r]
                new == user.autoPostingRules[r]
                cur == stored.autoPostingRules[r]
            IN  [cur EXCEPT
                   !.nextScheduled = IF new.nextScheduled # old.nextScheduled
                                       THEN new.nextScheduled ELSE @,
                   !.lastPublished = IF new.lastPublished # old.lastPublished
                                       THEN new.lastPublished ELSE @,
                   !.contentHistory = IF new.contentHistory # old.contentHistory
                                        THEN new.contentHistory ELSE @]],
     autoPostingHistory |->
        stored.autoPostingHistory
          \o SubSeq(user.autoPostingHistory, Len(found.autoPostingHistory) + 1,
                    Len(user.autoPostingHistory))]

\* user.autoPostingRules.filter(rule => rule.status === 'active' &&
\*   rule.nextScheduled && rule.nextScheduled <= new Date())
DueRules(user, t) ==
    {r \in RuleIds : /\ RuleIsActive(user.autoPostingRules[r])
                     /\ user.autoPostingRules[r].nextScheduled # NoDate
                     /\ user.autoPostingRules[r].nextScheduled <= t}

\* User.find({ 'autoPostingRules.status': 'active',
\*             'autoPostingRules.nextScheduled': { $lte: new Date() } })
FindUsers(store, t) ==
    {u \in DOMAIN store :
        /\ \E r \in RuleIds : store[u].autoPostingRules[r].status = "active"
        /\ \E r \in RuleIds :
              /\ store[u].autoPostingRules[r].nextScheduled # NoDate
              /\ store[u].autoPostingRules[r].nextScheduled <= t}

(***************************************************************************)
(* Observer of the executions: what the last step of an execution did to   *)
(* the document it holds (before -> after) and which calls it made.        *)
(***************************************************************************)
NoExec ==
    [kind |-> "none", user |-> 0, rule |-> 0, outcome |-> "none", http |-> 0,
     at |-> 0, loadedActive |-> FALSE, imageGeneration |-> FALSE,
     prevNext |-> NoDate, newNext |-> NoDate,
     prevCredits |-> 0, newCredits |-> 0, prevUsed |-> 0, newUsed |-> 0,
     pushed |-> 0, entry |-> NoEntry, untouched |-> TRUE,
     textCalls |-> 0, imageCalls |-> 0, publishCalls |-> 0,
     imageFailed |-> FALSE, guardCalls |-> 0, guardSimilar |-> FALSE,
     prevContent |-> <<>>, newContent |-> <<>>,
     newPublished |-> NoDate, gatewayError |-> ""]

Observe(kind, u, r, outcome, http, t, before, after, calls) ==
    [kind |-> kind, user |-> u, rule |-> r, outcome |-> outcome, http |-> http,
     at |-> t,
     loadedActive |-> before.autoPostingRules[r].status = "active",
     imageGeneration |-> before.autoPostingRules[r].imageGeneration,
     prevNext |-> before.autoPostingRules[r].nextScheduled,
     newNext |-> after.autoPostingRules[r].nextScheduled,
     prevCredits |-> before.aiCredits, newCredits |-> after.aiCredits,
     prevUsed |-> before.totalCreditsUsed, newUsed |-> after.totalCreditsUsed,
     pushed |-> Len(after.autoPostingHistory) - Len(before.autoPostingHistory),
     entry |-> IF Len(after.autoPostingHistory) > Len(before.autoPostingHistory)
                 THEN after.autoPostingHistory[Len(after.autoPostingHistory)]
                 ELSE NoEntry,
     untouched |-> after = before,
     textCalls |-> calls[1], imageCalls |-> calls[2], publishCalls |-> calls[3],
     imageFailed |-> calls[4], guardCalls |-> calls[5],
     guardSimilar |-> calls[6],
     prevContent |-> before.autoPostingRules[r].contentHistory,
     newContent |-> after.autoPostingRules[r].contentHistory,
     newPublished |-> after.autoPostingRules[r].lastPublished,
     gatewayError |-> calls[7]]

(***************************************************************************)
(* Tenant edits and the wall clock.                                        *)
(***************************************************************************)
\* updateAutoPostingRule with a new status: only that path is written
SetRuleStatus(u, r, status) ==
    /\ userStore[u].autoPostingRules[r].status # status
    /\ userStore' = [userStore EXCEPT ![u].autoPostingRules[r].status = status]
    /\ lastExec' = NoExec
    /\ UNCHANGED <<now, execKind, execPc, execFound, execUsers, execUser,
                   execDoc, execDue, execRule, execCount>>
    /\ UNCHANGED <<postVars, pollVars, pureVars>>

\* time passes
Clock ==
    /\ now < MaxClockSteps * ClockStep
    /\ now' = now + ClockStep
    /\ lastExec' = NoExec
    /\ UNCHANGED <<userStore, execKind, execPc, execFound, execUsers, execUser,
                   execDoc, execDue, execRule, execCount>>
    /\ UNCHANGED <<postVars, pollVars, pureVars>>

\* an execution slot returns to idle
ExecDone(p) ==
    /\ execKind' = [execKind EXCEPT ![p] = "none"]
    /\ execPc' = [execPc EXCEPT ![p] = "idle"]
    /\ execFound' = [execFound EXCEPT ![p] = NoUsers]
    /\ execUsers' = [execUsers EXCEPT ![p] = {}]
    /\ execUser' = [execUser EXCEPT ![p] = 1]
    /\ execDoc' = [execDoc EXCEPT ![p] = NoUser]
    /\ execDue' = [execDue EXCEPT ![p] = {}]
    /\ execRule' = [execRule EXCEPT ![p] = 1]

\* a new execution takes the lowest idle slot
SlotFree(p) ==
    /\ execKind[p] = "none"
    /\ \A q \in Execs : q < p => execKind[q] # "none"
    /\ execCount < MaxExecs

(***************************************************************************)
(* AutoPostingService.processDueRules (the cron path), one batch p.        *)
(***************************************************************************)
\* for (const user of users): skip the users without due rules, stop at the
\* first one that has some (its rules are then executed and it is saved)
CronNextUser(p, found, users, t) ==
    LET withDue == {u \in users : DueRules(found[u], t) # {}}
    IN  IF withDue = {}
          THEN ExecDone(p)
          ELSE LET u == Min(withDue)
               IN  /\ execKind' = [execKind EXCEPT ![p] = "cron"]
                   /\ execPc' = [execPc EXCEPT ![p] = "rule"]
                   /\ execFound' = [execFound EXCEPT ![p] = found]
                   /\ execUsers' = [execUsers EXCEPT ![p] = {v \in users : v > u}]
                   /\ execUser' = [execUser EXCEPT ![p] = u]
                   /\ execDoc' = [execDoc EXCEPT ![p] = found[u]]
                   /\ execDue' = [execDue EXCEPT ![p] = DueRules(found[u], t)]
                   /\ execRule' = [execRule EXCEPT ![p] = 1]

\* const users = await User.find({...}) resolves
CronStart(p) ==
    /\ SlotFree(p)
    /\ execCount' = execCount + 1
    /\ CronNextUser(p, userStore, FindUsers(userStore, now), now)
    /\ lastExec' = NoExec
    /\ UNCHANGED <<now, userStore>>
    /\ UNCHANGED <<postVars, pollVars, pureVars>>

\* the body of for (const rule of dueRules), try and catch included; its
\* awaited calls (scrape, generateText, generateImage, publishToChannel)
\* touch nothing but this batch's own document
CronExecRule(p) ==
    /\ execKind[p] = "cron"
    /\ execPc[p] = "rule"
    /\ LET u == execUser[p]
           r == Min(execDue[p])
           user == execDoc[p]
           rule == user.autoPostingRules[r]
           requiredCredits == RequiredCredits(rule)
       IN  \E text \in {"ok", "throw"}, image \in {"ok", "throw"},
              publish \in {"ok", "fail"} :
             LET outcome ==
                    CASE NotEnoughCredits(user, requiredCredits) -> "nocredits"
                      [] text = "throw"                   -> "genthrow"
                      [] ~rule.channelExists              -> "nochannel"
                      [] publish = "fail"                 -> "pubfail"
                      [] OTHER                            -> "success"
                 generated == outcome \notin {"nocredits", "genthrow"}
                 published == outcome \in {"pubfail", "success"}
                 imageTried == generated /\ rule.imageGeneration
                 afterImage == IF imageTried /\ image = "throw"
                                 THEN RefundImage(user)
                                 ELSE user
                 error == CASE outcome = "nocredits" -> "Not enough AI credits"
                            [] outcome = "genthrow"  -> "generateText failed"
                            [] outcome = "nochannel" -> "Channel not found for rule"
                            [] outcome = "pubfail"   -> PublishError(outcome)
                            [] OTHER                 -> ""
                 entry == HistoryEntry(r, IF outcome = "success" THEN "success"
                                          ELSE "failed", error)
                 booked == IF published
                             THEN [Debit(afterImage, requiredCredits) EXCEPT
                                     !.autoPostingRules[r].lastPublished = now]
                             ELSE afterImage
                 \* success path: reschedule, then push; the credit branch and
                 \* the catch: push, then reschedule
                 after == IF published
                            THEN PushHistory(Reschedule(booked, r, now), entry)
                            ELSE Reschedule(PushHistory(booked, entry), r, now)
                 \* text, image and publish calls; the duplication guard
                 \* is not called on this path
                 calls == <<IF outcome = "nocredits" THEN 0 ELSE 1,
                            IF imageTried THEN 1 ELSE 0,
                            IF published THEN 1 ELSE 0,
                            imageTried /\ image = "throw",
                            0, FALSE,
                            PublishError(outcome)>>
             IN  /\ execDoc' = [execDoc EXCEPT ![p] = after]
                 /\ execDue' = [execDue EXCEPT ![p] = @ \ {r}]
                 /\ execPc' = [execPc EXCEPT ![p] =
                                 IF execDue[p] = {r} THEN "save" ELSE "rule"]
                 /\ lastExec' = Observe("cron", u, r, outcome, 0, now,
                                        user, after, calls)
    /\ UNCHANGED <<now, userStore, execKind, execFound, execUsers, execUser,
                   execRule, execCount>>
    /\ UNCHANGED <<postVars, pollVars, pureVars>>

\* await user.save(), then the next user; a rejected save ends the batch in
\* the outer catch (return 0)
CronSave(p) ==
    /\ execKind[p] = "cron"
    /\ execPc[p] = "save"
    /\ \E saved \in BOOLEAN :
          IF saved
            THEN /\ userStore' = [userStore EXCEPT ![execUser[p]] =
                                    save(@, execFound[p][execUser[p]], execDoc[p])]
                 /\ CronNextUser(p, execFound[p], execUsers[p], now)
            ELSE /\ ExecDone(p)
                 /\ UNCHANGED userStore
    /\ lastExec' = NoExec
    /\ UNCHANGED <<now, execCount>>
    /\ UNCHANGED <<postVars, pollVars, pureVars>>

(***************************************************************************)
(* executeAutoPostingRule (the manual path), one request p.                *)
(***************************************************************************)
\* const user = await User.findById(userId) resolves; the rule is looked up,
\* its status and the balance are checked
ManualStart(p, u, r) ==
    /\ SlotFree(p)
    /\ execCount' = execCount + 1
    /\ LET user == userStore[u]
           rule == user.autoPostingRules[r]
       IN  IF ~RuleIsActive(rule)
             THEN \* 400 'Cannot execute inactive autoposting rule'
                  /\ lastExec' = Observe("manual", u, r, "inactive", 400, now,
                                         user, user, <<0, 0, 0, FALSE, 0, FALSE, "">>)
                  /\ UNCHANGED <<execKind, execPc, execFound, execUsers,
                                 execUser, execDoc, execDue, execRule>>
             ELSE IF NotEnoughCredits(user, RequiredCredits(rule))
             THEN \* 400 'Not enough AI credits to execute autoposting rule'
                  /\ lastExec' = Observe("manual", u, r, "nocredits", 400, now,
                                         user, user, <<0, 0, 0, FALSE, 0, FALSE, "">>)
                  /\ UNCHANGED <<execKind, execPc, execFound, execUsers,
                                 execUser, execDoc, execDue, execRule>>
             ELSE /\ execKind' = [execKind EXCEPT ![p] = "manual"]
                  /\ execPc' = [execPc EXCEPT ![p] = "generate"]
                  /\ execFound' = [execFound EXCEPT ![p] = userStore]
                  /\ execUser' = [execUser EXCEPT ![p] = u]
                  /\ execDoc' = [execDoc EXCEPT ![p] = user]
                  /\ execRule' = [execRule EXCEPT ![p] = r]
                  /\ lastExec' = NoExec
                  /\ UNCHANGED <<execUsers, execDue>>
    /\ UNCHANGED <<now, userStore>>
    /\ UNCHANGED <<postVars, pollVars, pureVars>>

\* from generateText to the history push; the awaited calls (scrape,
\* generateText, the duplication check and the second generateText,
\* generateImage, publishToChannel) touch nothing but this request's own
\* document.  first, second = 0: that generateText call throws.
ManualExecute(p) ==
    /\ execKind[p] = "manual"
    /\ execPc[p] = "generate"
    /\ LET u == execUser[p]
           r == execRule[p]
           user == execDoc[p]
           rule == user.autoPostingRules[r]
       IN  \E first \in 0..NumTexts, second \in 0..NumTexts,
              image \in {"ok", "throw"}, publish \in {"ok", "fail"} :
             LET isSimilar == /\ first # 0
                              /\ rule.avoidDuplication
                              /\ checkContentDuplication(GeneratedText(first),
                                    rule.contentHistory).isSimilar
                 generatedText == IF isSimilar THEN GeneratedText(second)
                                  ELSE GeneratedText(first)
                 outcome ==
                    CASE first = 0 \/ (isSimilar /\ second = 0) -> "genthrow"
                      [] ~rule.channelExists                    -> "nochannel"
                      [] publish = "fail"                       -> "pubfail"
                      [] OTHER                                  -> "success"
                 published == outcome \in {"pubfail", "success"}
                 imageTried == outcome # "genthrow" /\ rule.imageGeneration
                 \* catch of generateImage: requiredCredits = 1
                 requiredCredits == IF imageTried /\ image = "throw" THEN 1
                                    ELSE RequiredCredits(rule)
                 booked == [Debit(user, requiredCredits) EXCEPT
                              !.autoPostingRules[r].lastPublished = now]
                 remembered ==
                    IF rule.avoidDuplication /\ outcome = "success"
                      THEN [booked EXCEPT !.autoPostingRules[r].contentHistory =
                              cleanContentHistory(
                                 Append(@, createContentSummary(generatedText)),
                                 IF rule.duplicateCheckDays = 0 THEN 7
                                 ELSE rule.duplicateCheckDays)]
                      ELSE booked
                 entry == HistoryEntry(r, IF outcome = "success" THEN "success"
                                          ELSE "failed",
                                       IF outcome = "success" THEN ""
                                       ELSE PublishError(outcome))
                 after == PushHistory(Reschedule(remembered, r, now), entry)
                 calls == <<IF isSimilar THEN 2 ELSE 1,
                            IF imageTried THEN 1 ELSE 0,
                            IF published THEN 1 ELSE 0,
                            imageTried /\ image = "throw",
                            IF first # 0 /\ rule.avoidDuplication THEN 1 ELSE 0,
                            isSimilar,
                            PublishError(outcome)>>
             IN  IF published
                   THEN /\ execDoc' = [execDoc EXCEPT ![p] = after]
                        /\ execPc' = [execPc EXCEPT ![p] = "save"]
                        /\ lastExec' = Observe("manual", u, r, outcome, 0, now,
                                               user, after, calls)
                        /\ UNCHANGED <<execKind, execFound, execUsers,
                                       execUser, execDue, execRule>>
                   ELSE \* 500 from the catch, or 404 'Channel not found'
                        /\ ExecDone(p)
                        /\ lastExec' = Observe("manual", u, r, outcome,
                                               IF outcome = "genthrow" THEN 500
                                               ELSE 404,
                                               now, user, user, calls)
    /\ UNCHANGED <<now, userStore, execCount>>
    /\ UNCHANGED <<postVars, pollVars, pureVars>>

\* await user.save(), then the 200 (or the 500 of the catch)
ManualSave(p) ==
    /\ execKind[p] = "manual"
    /\ execPc[p] = "save"
    /\ \E saved \in BOOLEAN :
          userStore' = IF saved
                         THEN [userStore EXCEPT ![execUser[p]] =
                                 save(@, execFound[p][execUser[p]], execDoc[p])]
                         ELSE userStore
    /\ ExecDone(p)
    /\ lastExec' = NoExec
    /\ UNCHANGED <<now, execCount>>
    /\ UNCHANGED <<postVars, pollVars, pureVars>>

(***************************************************************************)
(* The executor's specification.                                           *)
(***************************************************************************)
InitExecs ==
    /\ execKind = [p \in Execs |-> "none"]
    /\ execPc = [p \in Execs |-> "idle"]
    /\ execFound = [p \in Execs |-> NoUsers]
    /\ execUsers = [p \in Execs |-> {}]
    /\ execUser = [p \in Execs |-> 1]
    /\ execDoc = [p \in Execs |-> NoUser]
    /\ execDue = [p \in Execs |-> {}]
    /\ execRule = [p \in Execs |-> 1]
    /\ execCount = 0
    /\ lastExec = NoExec

\* no tenant has rules that matter: the dispatcher specifications
InitRuleVarsEmpty ==
    /\ userStore = NoUsers
    /\ InitExecs

\* tenants with some balance whose rules were all created at time 0
InitRuleVars ==
    /\ userStore \in [Users -> {NewUser(credits, cfgs, 0) :
                                   credits \in {0, 2, MaxCredits},
                                   cfgs \in RuleLists}]
    /\ InitExecs

NextRules ==
    \/ Clock
    \/ \E u \in Users, r \in RuleIds, st \in {"active", "inactive"} :
          SetRuleStatus(u, r, st)
    \/ \E p \in Execs : CronStart(p)
    \/ \E p \in Execs : CronExecRule(p)
    \/ \E p \in Execs : CronSave(p)
    \/ \E p \in Execs, u \in Users, r \in RuleIds : ManualStart(p, u, r)
    \/ \E p \in Execs : ManualExecute(p)
    \/ \E p \in Execs : ManualSave(p)

(***************************************************************************)
(* ContentDuplicationService applied to sample texts: a text is checked    *)
(* against the summaries remembered so far.                                *)
(***************************************************************************)
\* keywords of the shortest and of the longest sample text
MinWords == 8
MaxWords == 30
\* summaries a sample history holds at most
MaxHistory == 2

\* a stop word, a word too short to count, n keywords of len characters
\* each, and the first keyword once more
SampleText(n, len) ==
    <<Word(0, 4), Word(n, 3)>> \o [k \in 1..n |-> Word(k, len)] \o <<Word(1, len)>>

SampleTexts == {SampleText(n, len) : n \in MinWords..MaxWords, len \in {5, 12}}

\* no check has been made
NotChecked == [isSimilar |-> FALSE, similarity |-> <<0, 0>>]

\* the bookkeeping after a publish: rule.contentHistory.push(contentSummary),
\* then cleanContentHistory with the default duplicateCheckDays
Remember(text) ==
    /\ Len(dupHistory) < MaxHistory
    /\ dupHistory' = cleanContentHistory(
                        Append(dupHistory, createContentSummary(text)), 7)
    /\ dupResult' = NotChecked
    /\ UNCHANGED <<dupContent, calcVars>>
    /\ UNCHANGED <<now, postVars, pollVars, ruleVars>>

\* await contentDuplicationService.checkContentDuplication(generatedText,
\*                                                         rule.contentHistory)
Check ==
    /\ dupResult = NotChecked
    /\ dupResult' = checkContentDuplication(dupContent, dupHistory)
    /\ UNCHANGED <<dupContent, dupHistory, calcVars>>
    /\ UNCHANGED <<now, postVars, pollVars, ruleVars>>

InitDupIdle ==
    /\ dupContent = <<>>
    /\ dupHistory = <<>>
    /\ dupResult = NotChecked

InitCalcIdle ==
    /\ calcParams = DailyNoon
    /\ calcNow = 0
    /\ calcDate = NoDate

InitPureIdle == InitDupIdle /\ InitCalcIdle

InitDup ==
    /\ now = 0
    /\ InitPostVars
    /\ InitPollVars
    /\ InitRuleVarsEmpty
    /\ InitCalcIdle
    /\ dupContent \in SampleTexts
    /\ dupHistory = <<>>
    /\ dupResult = NotChecked

NextDup ==
    \/ \E text \in SampleTexts : Remember(text)
    \/ Check

SpecDup == InitDup /\ [][NextDup]_vars

(***************************************************************************)
(* calculateNextScheduledDate applied to sample rules at sample times: at  *)
(* the creation of a rule, at its updates and at its executions.           *)
(***************************************************************************)
\* days of the sampled week and the longest sampled interval
NumDays == 7
MaxInterval == 30

ScheduleParams(frequency, interval, unit, time, days) ==
    [frequency |-> frequency, customInterval |-> interval,
     customTimeUnit |-> unit, preferredTime |-> time, preferredDays |-> days]

\* preferredTime is a free string: 'HH:MM' with hours 00, 09, 12 or 23, and
\* '-1:MM', which Number() parses as well
SampleClockTimes == {<<h, mi>> : h \in {-1, 0, 9, 12, 23}, mi \in {0, 30}}

SampleDays == {<<>>, <<"funday">>, <<"monday", "friday">>,
               <<"Sunday", "monday", "friday">>, <<"saturday", "wednesday">>}

SampleParams ==
    {ScheduleParams(f, 0, "", time, days) :
        f \in {"daily", "weekly", "monthly"}, time \in SampleClockTimes,
        days \in SampleDays}
    \cup
    {ScheduleParams("custom", n, unit, time, days) :
        n \in {0, 1, MaxInterval}, unit \in {"", "minutes", "hours", "days"},
        time \in {<<0, 30>>, <<12, 0>>},
        days \in {<<>>, <<"monday", "friday">>}}

\* 00:00, 00:10, 11:00, 13:00 and 23:30 of every day of the second week
SampleTimes ==
    {(DaysPerWeek + d) * MinutesPerDay + m :
        d \in 0..(NumDays - 1), m \in {0, 10, 660, 780, 1410}}

\* the calculator is called for the rule as it is (createAutoPostingRule,
\* the reschedule of an execution)
Calculate ==
    /\ calcDate = NoDate
    /\ calcDate' = calculateNextScheduledDate(calcParams, calcNow)
    /\ UNCHANGED <<calcParams, calcNow, dupVars>>
    /\ UNCHANGED <<now, postVars, pollVars, ruleVars>>

\* updateAutoPostingRule with one new recurrence field: nextScheduled is
\* recalculated from the updated rule
Update(params) ==
    /\ calcDate # NoDate
    /\ Cardinality({f \in DOMAIN params : params[f] # calcParams[f]}) = 1
    /\ calcParams' = params
    /\ calcDate' = calculateNextScheduledDate(params, calcNow)
    /\ UNCHANGED <<calcNow, dupVars>>
    /\ UNCHANGED <<now, postVars, pollVars, ruleVars>>

\* the rule comes due: the clock moves from a sampled time to nextScheduled
ComeDue ==
    /\ calcDate # NoDate
    /\ calcDate > calcNow
    /\ calcNow \in SampleTimes
    /\ calcNow' = calcDate
    /\ calcDate' = NoDate
    /\ UNCHANGED <<calcParams, dupVars>>
    /\ UNCHANGED <<now, postVars, pollVars, ruleVars>>

InitCalc ==
    /\ now = 0
    /\ InitPostVars
    /\ InitPollVars
    /\ InitRuleVarsEmpty
    /\ InitDupIdle
    /\ calcParams \in SampleParams
    /\ calcNow \in SampleTimes
    /\ calcDate = NoDate

NextCalc ==
    \/ Calculate
    \/ \E params \in SampleParams : Update(params)
    \/ ComeDue

SpecCalc == InitCalc /\ [][NextCalc]_vars

(***************************************************************************)
(* Specifications.                                                         *)
(***************************************************************************)
\* the dispatcher of one-shot posts, with the tenant's requests
InitPosts ==
    now = 0 /\ InitPostVars /\ InitPollVars /\ InitRuleVarsEmpty /\ InitPureIdle

SpecPosts == InitPosts /\ [][NextPosts]_vars

\* the dispatcher of one-shot polls, with the tenant's requests
SpecPolls == InitPosts /\ [][NextPolls]_vars

\* the autoposting executor: cron batches, manual requests, tenant edits
InitRules ==
    now = 0 /\ InitPostVars /\ InitPollVars /\ InitRuleVars /\ InitPureIdle

SpecRules == InitRules /\ [][NextRules]_vars

\* one processDueRules batch and one executeAutoPostingRule request that
\* arrives while the batch is running: the request loads the tenant after
\* the batch has, and their external calls and saves interleave
NextRace ==
    \/ Clock
    \/ CronStart(1)
    \/ CronExecRule(1)
    \/ CronSave(1)
    \/ \E u \in Users, r \in RuleIds : ManualStart(2, u, r)
    \/ ManualExecute(2)
    \/ ManualSave(2)

SpecRace == InitRules /\ [][NextRace]_vars

\* the cron path alone over several tenants: every tenant has the same two
\* rules and some balance, and nothing but processDueRules runs, one batch
\* after the other
InitBatch ==
    /\ now = 0
    /\ InitPostVars
    /\ InitPollVars
    /\ userStore \in [BatchUsers -> {NewUser(credits, TextAndImageRules, 0) :
                                        credits \in {0, 2, MaxCredits}}]
    /\ InitExecs
    /\ InitPureIdle

\* a tick that finds no batch in progress
BatchStart(p) ==
    /\ \A q \in Execs : execKind[q] = "none"
    /\ CronStart(p)

NextBatch ==
    \/ Clock
    \/ \E p \in Execs : BatchStart(p)
    \/ \E p \in Execs : CronExecRule(p)
    \/ \E p \in Execs : CronSave(p)

SpecBatch == InitBatch /\ [][NextBatch]_vars

\* the timer of SchedulerService.start over a store in which every tenant
\* has a rule that comes due one minute after its creation: the callback of
\* the every-minute job runs processScheduledPosts and processScheduledPolls
InitTick ==
    /\ now = 0
    /\ InitPostVars
    /\ InitPollVars
    /\ userStore = [u \in Users |-> NewUser(MaxCredits, MinuteAndDailyRules, 0)]
    /\ InitExecs
    /\ InitPureIdle

NextTick ==
    \/ \E d \in 1..MaxMinute : CreateScheduledPost(d)
    \/ \E d \in 1..MaxMinute : CreateScheduledPoll(d)
    \/ \E k \in Ticks : CronFire(k)
    \/ \E k \in Ticks : PostRefetch(k)
    \/ \E k \in Ticks : PostAcquire(k)
    \/ \E k \in Ticks : PostFindUser(k)
    \/ \E k \in Ticks : PostPublishReturn(k)
    \/ \E k \in Ticks : PostDelete(k)
    \/ \E k \in Ticks : PostFinally(k)
    \/ \E k \in Ticks : PollFire(k)
    \/ \E k \in Ticks : PollFindUser(k)
    \/ \E k \in Ticks : PollSendReturn(k)
    \/ \E k \in Ticks : PollDelete(k)

SpecTick == InitTick /\ [][NextTick]_vars

(***************************************************************************)
(* Claims about the scheduled-post dispatcher (checked under SpecPosts).   *)
(***************************************************************************)
\* run k is between processingPosts.add(p) and processingPosts.delete(p)
TickInSection(k, p) ==
    /\ tickPc[k] \in {"finduser", "publish", "delete", "finally"}
    /\ CurPost(k) = p

\* request r is between publishingPosts.add(p) and publishingPosts.delete(p)
ReqInSection(r, p) ==
    /\ reqPc[r] \in {"finduser", "publish", "delete", "finally"}
    /\ reqId[r] = p

\* C1: a cron run and a manual publish request are never both inside their
\* guarded publish sections for the same scheduled-post id.
C1_CrossTriggerExclusive ==
    \A p \in PostIds : \A k \in Ticks : \A r \in Reqs :
        ~(TickInSection(k, p) /\ ReqInSection(r, p))

\* C2: the step of a cron run that follows a failed publish leaves the
\* ScheduledPost collection as it was (the record is not deleted by a run
\* whose publish failed).
C2_FailedPublishKeepsPost ==
    [][\A k \in Ticks :
          (tickPc[k] = "delete" /\ tickResult[k] = "fail" /\ tickPc'[k] = "finally")
              => scheduledPosts' = scheduledPosts]_vars

\* C8: of the attempts to acquire one in-flight set for one id that are made
\* before a release, at most one is inside the guarded section; the others
\* skip the item (cron runs on processingPosts, requests on publishingPosts).
C8_OneHolderPerGuard ==
    \A p \in PostIds :
        /\ Cardinality({k \in Ticks : TickInSection(k, p)}) <= 1
        /\ Cardinality({r \in Reqs : ReqInSection(r, p)}) <= 1

\* a second run reaches the check for a post that a first run holds
C8_Witness ==
    \E p \in PostIds : \E k1 \in Ticks : \E k2 \in Ticks :
        /\ k1 # k2
        /\ TickInSection(k1, p)
        /\ tickPc[k2] = "check"
        /\ CurPost(k2) = p
        /\ postStillExists[k2]

\* C9: an id is in an in-flight set only while a publish attempt for it is in
\* progress: every exit path of the guarded section has removed it.
C9_GuardNeverLeaked ==
    \A p \in PostIds :
        /\ p \in processingPosts => \E k \in Ticks : TickInSection(k, p)
        /\ p \in publishingPosts => \E r \in Reqs : ReqInSection(r, p)

\* every run has returned, a post that was due at the last firing is still
\* stored (its attempt left by a failure path), and no id is held
C9_Witness ==
    /\ \A k \in Ticks : tickPc[k] = "idle"
    /\ \A r \in Reqs : reqPc[r] = "idle"
    /\ processingPosts = {}
    /\ publishingPosts = {}
    /\ \E p \in PostIds : /\ scheduledPosts[p].exists
                          /\ scheduledPosts[p].scheduledDate <= now

(***************************************************************************)
(* Claims about the scheduled-poll dispatcher (SpecPolls).                 *)
(***************************************************************************)
\* a step of dispatcher run k on the poll it is at
PollRunStep(k) == pollPc[k] # "idle" /\ duePolls'[k] # duePolls[k]

\* C3: one-shot poll retry-until-deleted.  (a) an attempt of the dispatcher
\* that ends without a successful send (user or channel missing, a throw,
\* sendPoll answering success=false) leaves the store unchanged; (b) a
\* dispatcher step removes a poll only in the delete that follows its own
\* successful send, and that delete removes exactly this poll, or nothing when
\* the delete itself throws; (c) every tick's query returns every stored
\* unpublished poll whose date has come, however many attempts on it failed.
C3_PollRetryUntilDeleted ==
    [][/\ now' # now
            => \E k \in Ticks :
                  /\ pollPc[k] = "idle"
                  /\ duePolls'[k] = {p \in PostIds :
                                       /\ scheduledPolls[p].exists
                                       /\ ~scheduledPolls[p].published
                                       /\ scheduledPolls[p].scheduledDate <= now'}
       /\ \A k \in Ticks :
         /\ (PollRunStep(k) /\ pollPc[k] \in {"finduser", "send"})
               => scheduledPolls' = scheduledPolls
         /\ (PollRunStep(k) /\ scheduledPolls' # scheduledPolls)
               => /\ pollPc[k] = "delete"
                  /\ pollResult[k] = "ok"
                  /\ scheduledPolls' = [scheduledPolls EXCEPT ![CurPoll(k)] = NoPost]
         /\ (pollPc[k] = "send" /\ pollPc'[k] = "delete")
               => pollResult'[k] = "ok"
       ]_vars

\* C3 witness: a poll whose send already failed on an earlier tick is still
\* stored and is being sent again by a later tick
C3_Witness ==
    \E k \in Ticks :
       /\ pollPc[k] = "send"
       /\ pollAttempts[CurPoll(k)] >= 1
       /\ scheduledPolls[CurPoll(k)].exists


(***************************************************************************)
(* Claims about the autoposting executor (SpecRules).  lastExec describes  *)
(* the execution step just taken: the rejection of a manual request, the   *)
(* run of a manual request up to its save, or one rule of a cron batch.    *)
(***************************************************************************)
\* the step just taken executed a rule that was active in the document the
\* execution had loaded
Executed == lastExec.kind # "none" /\ lastExec.loadedActive

\* the recurrence parameters of the rule the step was about
ExecutedRule == userStore[lastExec.user].autoPostingRules[lastExec.rule]

\* C4: every execution of an active rule, through the cron path or the manual
\* API and whatever its outcome, sets rule.nextScheduled to the value
\* calculateNextScheduledDate yields at that moment; no stale value is left.
C4_EveryExecutionReschedules ==
    Executed =>
        /\ lastExec.newNext = calculateNextScheduledDate(ExecutedRule, lastExec.at)
        /\ lastExec.newNext > lastExec.at

\* C5: each execution attempt of an active rule (cron or manual) appends
\* exactly one history entry, whatever the outcome.
C5_OneHistoryEntryPerAttempt ==
    /\ Executed => lastExec.pushed = 1
    /\ (lastExec.kind # "none" /\ ~lastExec.loadedActive) => lastExec.pushed = 0

C7_ScenarioB ==
    (Executed /\ lastExec.outcome = "nocredits")
    => /\ lastExec.textCalls = 0
       /\ lastExec.imageCalls = 0
       /\ lastExec.publishCalls = 0
       /\ lastExec.pushed = 1
       /\ lastExec.entry.status = "failed"
       /\ lastExec.entry.error = "Not enough AI credits"
       /\ lastExec.newNext = calculateNextScheduledDate(ExecutedRule, lastExec.at)
       /\ lastExec.newCredits = lastExec.prevCredits
       /\ lastExec.newUsed = lastExec.prevUsed

\* C10: a manual execution of a rule whose status is not active is answered
\* with a 400 and has no effect: no generation, image or publish call, the
\* document untouched (credits, history, nextScheduled, lastPublished,
\* contentHistory), nothing left to save; and a cron batch executes only
\* rules that are active in the documents it found.
C10_InactiveRuleRejected ==
    /\ (lastExec.kind = "manual" /\ ~lastExec.loadedActive)
          => /\ lastExec.outcome = "inactive"
             /\ lastExec.http = 400
             /\ lastExec.textCalls = 0
             /\ lastExec.imageCalls = 0
             /\ lastExec.publishCalls = 0
             /\ lastExec.pushed = 0
             /\ lastExec.untouched
    /\ lastExec.kind = "cron" => lastExec.loadedActive
    /\ \A p \in Execs :
          /\ execKind[p] = "manual"
                => execDoc[p].autoPostingRules[execRule[p]].status = "active"
          /\ (execKind[p] = "cron" /\ execPc[p] = "rule")
                => \A r \in execDue[p] :
                      execDoc[p].autoPostingRules[r].status = "active"

\* C10 witness: a manual request for a rule the tenant has set inactive has
\* just been rejected, while the tenant's other rule is active and due
C10_Witness ==
    /\ lastExec.kind = "manual"
    /\ lastExec.outcome = "inactive"
    /\ lastExec.http = 400
    /\ \E r \in RuleIds :
          /\ r # lastExec.rule
          /\ r \in DueRules(userStore[lastExec.user], now)


\* C11: an execution of an active rule with imageGeneration whose image
\* generation fails, by a tenant with at least 3 credits, goes on without an
\* image: when the channel exists it makes its publish call, and the balance
\* it leaves is exactly 1 lower than before (cron and manual alike).
C11_ImageFailureNonFatal ==
    (/\ Executed
     /\ lastExec.imageFailed
     /\ lastExec.prevCredits >= 3)
    => /\ lastExec.imageGeneration
       /\ lastExec.textCalls >= 1
       /\ lastExec.imageCalls = 1
       /\ ExecutedRule.channelExists
             => /\ lastExec.outcome \in {"success", "pubfail"}
                /\ lastExec.publishCalls = 1
                /\ lastExec.pushed = 1
                /\ lastExec.newCredits = lastExec.prevCredits - 1

\* C11 witness: a cron run whose image generation failed has published its
\* text and left the 5 credits of the tenant at 4
C11_Witness ==
    /\ Executed
    /\ lastExec.kind = "cron"
    /\ lastExec.imageFailed
    /\ lastExec.outcome = "success"
    /\ lastExec.prevCredits = 5
    /\ lastExec.newCredits = 4
    /\ lastExec.entry.status = "success"


(***************************************************************************)
(* Claims about a cron batch over several tenants (SpecBatch).             *)
(***************************************************************************)
\* the tenants batch p has fetched and not yet reached whose rules are due
PendingTenants(p) ==
    {u \in execUsers[p] : DueRules(execFound[p][u], now) # {}}

\* C12: a failure met while a cron batch handles one rule or one tenant (an
\* exception of generation, publish or persistence included) never ends the
\* batch while due rules of that tenant or tenants it fetched with due rules
\* are still to be processed: a batch returns only when none is left.
C12_BatchIsolation ==
    [][\A p \in Execs :
          (execKind[p] = "cron" /\ execKind'[p] = "none")
              => /\ PendingTenants(p) = {}
                 /\ execDue[p] = {}]_vars


(***************************************************************************)
(* Claims about the timer of SchedulerService.start (SpecTick).            *)
(***************************************************************************)
\* C13: every firing of the every-minute timer that finds a tenant with an
\* active rule whose nextScheduled has come starts the executor on such a
\* tenant (a processDueRules batch holding one of them), so that a due rule
\* is executed without a manual trigger.
C13_TickDispatchesDueRules ==
    [][(now' # now /\ FindUsers(userStore, now') # {})
          => \E p \in Execs :
                /\ execKind'[p] = "cron"
                /\ execUser'[p] \in FindUsers(userStore, now')]_vars


(***************************************************************************)
(* Claims about ContentDuplicationService (SpecDup).                       *)
(***************************************************************************)
\* C14: a text with at least 10 keywords, checked with the threshold 0.7
\* against a history that holds just its own summary, is reported similar
\* with similarity exactly 1; and against the empty history no text is
\* reported similar.
C14_OwnSummaryIsDuplicate ==
    dupResult # NotChecked =>
        /\ (/\ dupHistory = <<createContentSummary(dupContent)>>
            /\ Len(extractKeywords(dupContent)) >= MIN_WORDS_TO_CHECK)
              => /\ dupResult.isSimilar
                 /\ dupResult.similarity[1] = dupResult.similarity[2]
        /\ dupHistory = <<>> => ~dupResult.isSimilar


\* C26: a check reports as similarity the greatest Jaccard index
\* |intersection| / |union| of the keyword sets of the candidate and of a
\* history entry, and isSimilar exactly when that maximum is at least 0.7;
\* for a candidate with fewer than 10 keywords, and for the empty history,
\* it reports isSimilar = false with similarity 0 whatever the history holds.
C26_MaxJaccardAgainstThreshold ==
    dupResult # NotChecked =>
        LET candidate == Range(extractKeywords(dupContent))
            entry(i) == Range(extractKeywords(dupHistory[i]))
            common(i) == Cardinality(candidate \cap entry(i))
            all(i) == Cardinality(candidate \cup entry(i))
            similarity == dupResult.similarity
        IN  IF Cardinality(candidate) < MIN_WORDS_TO_CHECK \/ dupHistory = <<>>
              THEN ~dupResult.isSimilar /\ similarity = <<0, 1>>
              ELSE /\ similarity[2] > 0
                   /\ \E i \in DOMAIN dupHistory :
                         similarity[1] * all(i) = common(i) * similarity[2]
                   /\ \A i \in DOMAIN dupHistory :
                         common(i) * similarity[2] <= similarity[1] * all(i)
                   /\ dupResult.isSimilar
                         <=> 10 * similarity[1] >= 7 * similarity[2]

\* C26 witness: a check against two summaries of which the first is the
\* closer one, close enough to be reported, without being the candidate's own
C26_Witness ==
    /\ dupResult # NotChecked
    /\ Len(dupHistory) = 2
    /\ dupResult.isSimilar
    /\ dupResult.similarity[1] < dupResult.similarity[2]
    /\ LET candidate == Range(extractKeywords(dupContent))
           entry(i) == Range(extractKeywords(dupHistory[i]))
       IN  /\ Cardinality(candidate \cap entry(1)) * Cardinality(candidate \cup entry(2))
                > Cardinality(candidate \cap entry(2)) * Cardinality(candidate \cup entry(1))
           /\ Cardinality(candidate \cap entry(2)) > 0


(***************************************************************************)
(* Claims about calculateNextScheduledDate (SpecCalc).                     *)
(***************************************************************************)
\* the computation has been made for a preferredTime 'HH:MM' with hours
\* 00..23 and minutes 00..59
WellFormedTime ==
    /\ calcDate # NoDate
    /\ calcParams.preferredTime[1] \in 0..23
    /\ calcParams.preferredTime[2] \in 0..59

\* C15: for a daily rule, and for a rule of unknown frequency, with a
\* well-formed preferredTime the calculator returns today at exactly
\* preferredTime when that instant is later than now, and otherwise the next
\* calendar day at exactly preferredTime.
C15_DailyAtPreferredTime ==
    (WellFormedTime /\ calcParams.frequency \in {"daily", "monthly"})
        => LET today == (calcNow \div MinutesPerDay) * MinutesPerDay
                          + calcParams.preferredTime[1] * MinutesPerHour
                          + calcParams.preferredTime[2]
           IN  calcDate = IF today > calcNow THEN today
                          ELSE today + MinutesPerDay

\* C16: whatever the frequency, the preferredTime and the preferredDays of a
\* rule whose customInterval is a positive integer (or absent), the date the
\* calculator returns is strictly later than the time it was computed at.
C16_NextStrictlyLater ==
    calcDate # NoDate => calcDate > calcNow

\* the weekday numbers of the recognised names among preferredDays
PreferredDayNumbers ==
    {d \in 0..(DaysPerWeek - 1) :
        \E i \in DOMAIN calcParams.preferredDays :
           /\ toLowerCase(calcParams.preferredDays[i]) \in DOMAIN weekdayMap
           /\ weekdayMap[toLowerCase(calcParams.preferredDays[i])] = d}

\* C17: for a weekly rule with a well-formed preferredTime the result is, at
\* preferredTime, on the smallest preferred weekday strictly greater than the
\* weekday of the daily candidate, or if there is none on the smallest
\* preferred weekday of the following week; with no recognised preferred day
\* it is the daily candidate itself.
C17_WeeklyNextPreferredDay ==
    (WellFormedTime /\ calcParams.frequency = "weekly")
        => LET atPreferredTime == (calcNow \div MinutesPerDay) * MinutesPerDay
                                    + calcParams.preferredTime[1] * MinutesPerHour
                                    + calcParams.preferredTime[2]
               candidate == IF atPreferredTime > calcNow THEN atPreferredTime
                            ELSE atPreferredTime + MinutesPerDay
               currentWeekday == GetDay(candidate)
               later == {d \in PreferredDayNumbers : d > currentWeekday}
           IN  calcDate =
                 IF PreferredDayNumbers = {} THEN candidate
                 ELSE IF later # {}
                 THEN candidate + (Min(later) - currentWeekday) * MinutesPerDay
                 ELSE candidate + (DaysPerWeek - currentWeekday
                                     + Min(PreferredDayNumbers)) * MinutesPerDay

\* C18: for a custom rule with customInterval n >= 1 and the unit minutes,
\* hours or days, the date computed at time T is exactly T + n units,
\* whatever preferredTime and preferredDays are.
C18_CustomIsNowRelative ==
    (/\ calcDate # NoDate
     /\ calcParams.frequency = "custom"
     /\ calcParams.customInterval >= 1
     /\ calcParams.customTimeUnit \in {"minutes", "hours", "days"})
    => calcDate = calcNow + calcParams.customInterval *
                     (CASE calcParams.customTimeUnit = "minutes" -> 1
                        [] calcParams.customTimeUnit = "hours" -> MinutesPerHour
                        [] calcParams.customTimeUnit = "days" -> MinutesPerDay)

\* C18 witness: a rule that repeats every 30 minutes, with preferredTime
\* 00:30 and preferredDays monday and friday, computed at 23:30, is next due
\* 30 minutes later, on the next day
C18_Witness ==
    /\ calcParams.frequency = "custom"
    /\ calcParams.customInterval = 30
    /\ calcParams.customTimeUnit = "minutes"
    /\ calcParams.preferredTime = <<0, 30>>
    /\ calcParams.preferredDays = <<"monday", "friday">>
    /\ calcNow % MinutesPerDay = 1410
    /\ calcDate = calcNow + 30


(***************************************************************************)
(* Claims about the scheduled-poll dispatcher (SpecPolls), continued.      *)
(***************************************************************************)
\* C19: a dispatcher run goes on to the gateway call for a due poll only if
\* the poll is still in the store when the run reaches it (an item removed
\* after the due query is skipped) and no other run is between its gateway
\* call and its delete for the same poll (an item in flight is skipped), as
\* a run does for a due post.
C19_RefetchAndGuardBeforeGateway ==
    [][\A k \in Ticks :
          (pollPc[k] = "finduser" /\ pollPc'[k] = "send")
              => /\ scheduledPolls[CurPoll(k)].exists
                 /\ \A j \in Ticks \ {k} :
                       ~(pollPc[j] \in {"send", "delete"} /\ CurPoll(j) = CurPoll(k))]_vars


(***************************************************************************)
(* Claims about the autoposting executor (SpecRules), continued.           *)
(***************************************************************************)
\* C20: an execution (cron or manual) of an active rule with avoidDuplication
\* whose first text generation has returned calls the duplication guard once
\* on that text; it generates a second text exactly when the guard reports
\* the first one similar, and no execution makes more than two
\* text-generation calls.
C20_GuardThenOneRegeneration ==
    /\ lastExec.textCalls <= 2
    /\ (/\ Executed
        /\ ExecutedRule.avoidDuplication
        /\ lastExec.outcome \in {"nochannel", "pubfail", "success"})
          => /\ lastExec.guardCalls = 1
             /\ lastExec.textCalls = IF lastExec.guardSimilar THEN 2 ELSE 1


\* C21: an execution of an active rule appends one fingerprint to
\* rule.contentHistory exactly when avoidDuplication is set and the publish
\* succeeded, and then trims the list: it holds at most
\* max(2 * duplicateCheckDays, 10) entries, the most recent ones in insertion
\* order; every other execution leaves contentHistory as it was.
C21_ContentHistoryBookkeeping ==
    Executed =>
        LET prev == lastExec.prevContent
            new == lastExec.newContent
            maxEntries == Max({2 * ExecutedRule.duplicateCheckDays, 10})
        IN  IF ExecutedRule.avoidDuplication /\ lastExec.outcome = "success"
              THEN /\ Len(new) = Min({Len(prev) + 1, maxEntries})
                   /\ \A i \in 1..(Len(new) - 1) :
                         new[i] = prev[Len(prev) + 1 - Len(new) + i]
              ELSE new = prev


(***************************************************************************)
(* Claims about the scheduled-post dispatcher (SpecPosts), continued.      *)
(***************************************************************************)
\* C22: at any time at most one invocation of the every-minute callback is
\* running: a run of processScheduledPosts that is still in progress when the
\* timer fires again delays the start of the next one.
C22_TicksNeverOverlap ==
    Cardinality({k \in Ticks : tickPc[k] # "idle"}) <= 1


(***************************************************************************)
(* Claims about the autoposting executor (SpecRules), continued.           *)
(***************************************************************************)
\* what an execution costs in the end: 3 with a generated image, 1 without
\* an image or when the image generation failed
FinalCost == IF lastExec.imageGeneration /\ ~lastExec.imageFailed THEN 3 ELSE 1

\* C23: an execution whose publish call returns a failure (without throwing)
\* still lowers the balance by the final required cost, increases the
\* total-used counter, sets lastPublished to the time of the run, recomputes
\* nextScheduled and appends one entry with status failed whose error is the
\* message of the gateway; an entry has status success exactly when the
\* gateway reported success.
C23_GatewayFailureStillBooked ==
    /\ (Executed /\ lastExec.outcome = "pubfail")
          => /\ lastExec.publishCalls = 1
             /\ lastExec.newCredits = lastExec.prevCredits - FinalCost
             /\ lastExec.newUsed > lastExec.prevUsed
             /\ lastExec.newPublished = lastExec.at
             /\ lastExec.newNext = calculateNextScheduledDate(ExecutedRule, lastExec.at)
             /\ lastExec.pushed = 1
             /\ lastExec.entry.status = "failed"
             /\ lastExec.entry.ruleId = lastExec.rule
             /\ lastExec.gatewayError # ""
             /\ lastExec.entry.error = lastExec.gatewayError
    /\ (Executed /\ lastExec.pushed = 1)
          => (lastExec.entry.status = "success" <=> lastExec.outcome = "success")

\* C23 witness: a cron run whose image generation failed and whose publish
\* was refused by the gateway has left the 5 credits of the tenant at 4 and
\* one failed entry
C23_Witness ==
    /\ Executed
    /\ lastExec.kind = "cron"
    /\ lastExec.outcome = "pubfail"
    /\ lastExec.imageFailed
    /\ lastExec.prevCredits = 5
    /\ lastExec.newCredits = 4
    /\ lastExec.entry.status = "failed"
    /\ lastExec.entry.error = "publish failed"


\* C24: an execution (cron or manual) of an active rule whose channel is
\* missing from the tenant's channels makes no publish call, appends one
\* failed entry that carries the error message, and still recomputes
\* nextScheduled.
C24_MissingChannelFailsOnlyThatRun ==
    (Executed /\ lastExec.outcome = "nochannel")
    => /\ lastExec.publishCalls = 0
       /\ lastExec.pushed = 1
       /\ lastExec.entry.status = "failed"
       /\ lastExec.entry.error = "Channel not found for rule"
       /\ lastExec.newNext = calculateNextScheduledDate(ExecutedRule, lastExec.at)


\* the statuses of a tenant's rules are the same in both documents, and the
\* history entries of the first are, unchanged and in order, the first
\* entries of the second
KeepsRulesAndHistory(before, after) ==
    /\ \A r \in RuleIds :
          after.autoPostingRules[r].status = before.autoPostingRules[r].status
    /\ Len(after.autoPostingHistory) >= Len(before.autoPostingHistory)
    /\ \A i \in DOMAIN before.autoPostingHistory :
          after.autoPostingHistory[i] = before.autoPostingHistory[i]

\* C25: no step of an execution (cron or manual, whatever its outcome)
\* changes the status of a rule or removes a rule or a recorded history
\* entry, neither in the document the execution holds nor in the stored
\* tenant record when it saves: a rule that was active before is still
\* there and still active after.
C25_ExecutionKeepsStatusAndHistory ==
    [][\A p \in Execs :
          execPc'[p] # execPc[p] \/ execDoc'[p] # execDoc[p]
            => /\ \A u \in Users : KeepsRulesAndHistory(userStore[u], userStore'[u])
               /\ (execPc[p] \in {"rule", "generate"} /\ execPc'[p] # "idle")
                     => KeepsRulesAndHistory(execDoc[p], execDoc'[p])]_vars

\* C25 witness: a rule has failed twice in a row, both failures are in the
\* stored history, and the stored rule is still active
C25_Witness ==
    \E u \in Users : \E r \in RuleIds :
        /\ Len(userStore[u].autoPostingHistory) >= 2
        /\ \A i \in 1..2 :
              /\ userStore[u].autoPostingHistory[i].ruleId = r
              /\ userStore[u].autoPostingHistory[i].status = "failed"
        /\ userStore[u].autoPostingRules[r].status = "active"
        /\ \A p \in Execs : execKind[p] = "none"


\* C27: a cron execution that ends in the per-rule catch (generateText
\* throws, or the channel is not found, with or without a failed image
\* generation before) leaves aiCredits and totalCreditsUsed of the document
\* that is then saved as they were before that execution.
C27_ErrorBoundaryKeepsCredits ==
    (/\ Executed
     /\ lastExec.kind = "cron"
     /\ lastExec.outcome \in {"genthrow", "nochannel"})
        => /\ lastExec.newCredits = lastExec.prevCredits
           /\ lastExec.newUsed = lastExec.prevUsed


\* C28: every execution, cron or manual, with or without a failed image
\* generation, takes from aiCredits what it adds to totalCreditsUsed:
\* aiCredits + totalCreditsUsed is the same after it as before.
C28_CreditsConserved ==
    Executed =>
        lastExec.newCredits + lastExec.newUsed
            = lastExec.prevCredits + lastExec.prevUsed


\* C29: aiCredits is never negative, neither in a stored tenant record nor
\* in the document an execution works on: not after several due rules of
\* one tenant were executed in one batch against the same in-memory balance,
\* not after failed image generations, not after any sequence of cron and
\* manual executions.
C29_CreditsNeverNegative ==
    /\ \A u \in Users : userStore[u].aiCredits >= 0
    /\ \A p \in Execs : execKind[p] # "none" => execDoc[p].aiCredits >= 0
    /\ Executed => lastExec.newCredits >= 0

\* C29 witness: in one batch a first rule has been debited and the next due
\* rule of the same tenant is refused against what is left in memory, which
\* is less than the balance still stored
C29_Witness ==
    /\ Executed
    /\ lastExec.kind = "cron"
    /\ lastExec.outcome = "nocredits"
    /\ lastExec.prevUsed > userStore[lastExec.user].totalCreditsUsed
    /\ lastExec.prevCredits < RequiredCredits(ExecutedRule)
    /\ lastExec.prevCredits < userStore[lastExec.user].aiCredits
    /\ \A p \in Execs : execKind[p] # "manual"


\* C30: when a manual request and a cron batch on the same tenant
\* interleave, every save that reaches the stored record adds the run's own
\* effect to what is stored: the stored balance goes down by what the run
\* spent, the run's history entries are appended to the stored history, and
\* the rules the run rescheduled get its nextScheduled while the others keep
\* theirs; so after both the record reflects both.
C30_NoLostUpdate ==
    [][\A p \in Execs :
          LET u == execUser[p]
              found == execFound[p][u]
              doc == execDoc[p]
          IN  (/\ execPc[p] = "save"
               /\ execPc'[p] # "save"
               /\ userStore'[u] # userStore[u])
                => /\ userStore'[u].aiCredits
                        = userStore[u].aiCredits - (found.aiCredits - doc.aiCredits)
                   /\ userStore'[u].autoPostingHistory
                        = userStore[u].autoPostingHistory
                            \o SubSeq(doc.autoPostingHistory,
                                      Len(found.autoPostingHistory) + 1,
                                      Len(doc.autoPostingHistory))
                   /\ \A r \in RuleIds :
                         userStore'[u].autoPostingRules[r].nextScheduled
                           = IF doc.autoPostingRules[r].nextScheduled
                                  # found.autoPostingRules[r].nextScheduled
                               THEN doc.autoPostingRules[r].nextScheduled
                               ELSE userStore[u].autoPostingRules[r].nextScheduled]_vars

=============================================================================
